---- MODULE Spec2Model ----
(***************************************************************************)
(* LoadCurveGenerator (src/src/ingestion/curve_generator.py): the hourly   *)
(* calendar built at construction and generate_profile, which either       *)
(* tiles and rescales a real sample or shapes and rescales a synthetic     *)
(* curve.                                                                  *)
(*                                                                         *)
(* Real numbers are fixed-point: a relative value v is the integer         *)
(* v * SCALE, so that 0.05, 0.1 and the 0.85 weekend factor are exact.     *)
(* A returned series holds its values as fractions values[i] / den with a  *)
(* common denominator; arithmetic is exact (no floating-point rounding).   *)
(***************************************************************************)
EXTENDS Integers, Sequences, FiniteSets, TLC

VARIABLES
    year,               \* self.year
    dates,              \* self.dates, the hourly DatetimeIndex
    n_hours,            \* self.n_hours
    pc,                 \* position of the current generate_profile call
    profile_type,       \* argument of the current call
    annual_volume_mwh,  \* argument of the current call
    response,           \* what fetch_real_load_curve did in this call
    real_curve,         \* the series it returned
    fetches,            \* number of fetch_real_load_curve calls in this call
    draws,              \* the np.random.normal draws of this call (z-scores)
    curve,              \* full_pattern / base_curve before normalization
    total_units,        \* total_units
    result,             \* the returned pd.Series, or NoSeries
    days,               \* the days argument of the fetch of this call, 0 if none
    had_data            \* history: an earlier call on this instance got a non-empty sample

vars == <<year, dates, n_hours, pc, profile_type, annual_volume_mwh,
          response, real_curve, fetches, draws, curve, total_units, result,
          days, had_data>>

instance == <<year, dates, n_hours>>
locals == <<profile_type, annual_volume_mwh, response, real_curve, fetches, draws,
            curve, total_units, result, days>>

----------------------------------------------------------------------------
(* Bounds and input sets *)

\* longest short sample the retriever returns (besides the long ones below)
MaxLen == 2
\* the random draws of one call repeat with this period over the hours
DrawPeriod == 2

\* fetch_real_load_curve(days=14)
FetchDays == 14

\* fixed-point unit: 1.0 is SCALE
SCALE == 400

Years == {2024, 2026}
Archetypes == {"INDUSTRY_24_7", "OFFICE_BUILDING", "SOLAR_PPA", "RETAIL_SHOP"}
Volumes == {-5, 0, 12}
\* sample values -1.0 and 1.0 (the all-zero sample is ZeroSample below)
SampleVals == {-SCALE, SCALE}
\* standard scores of the Gaussian draws: far negative tail, above mean
Zs == {-21, 1}

None == "None"
NoSeries == [name |-> "None"]

----------------------------------------------------------------------------
(* Helpers *)

Min(a, b) == IF a < b THEN a ELSE b
Max(a, b) == IF a > b THEN a ELSE b

RECURSIVE SumRange(_, _, _)
SumRange(s, lo, hi) ==
    IF lo > hi THEN 0
    ELSE IF lo = hi THEN s[lo]
    ELSE LET mid == (lo + hi) \div 2
         IN SumRange(s, lo, mid) + SumRange(s, mid + 1, hi)

\* ndarray.sum()
Sum(s) == SumRange(s, 1, Len(s))

SeqsUpTo(S, n) == UNION {[1..k -> S] : k \in 1..n}

----------------------------------------------------------------------------
(* Calendar: pd.date_range(f"{year}-01-01", f"{year}-12-31 23:00", freq="h") *)

IsLeap(y) == (y % 4 = 0 /\ y % 100 # 0) \/ y % 400 = 0
DaysInYear(y) == IF IsLeap(y) THEN 366 ELSE 365

\* weekday of January 1st, Monday = 0 (proleptic Gregorian ordinal)
Jan1DayOfWeek(y) ==
    (365 * (y - 1) + (y - 1) \div 4 - (y - 1) \div 100 + (y - 1) \div 400) % 7

\* the index is held as its start year and its number of hourly periods
DateRange(y) == [start |-> y, periods |-> 24 * DaysInYear(y)]

\* dates.hour and dates.dayofweek at position i (1-based)
Hour(d, i) == (i - 1) % 24
DayOfWeek(d, i) == (Jan1DayOfWeek(d.start) + (i - 1) \div 24) % 7

----------------------------------------------------------------------------
(* Retriever responses *)

\* an all-zero sample, a 14-day hourly sample, one that is exactly a year long
\* and one longer
ZeroSample == <<0>>
FortnightSample == [i \in 1..336 |-> IF (i - 1) % 24 < 12 THEN SCALE ELSE 0]
YearSample(n) == [i \in 1..n |-> IF i % 2 = 0 THEN SCALE ELSE 0]
LongSample(n) == [i \in 1..(n + 1) |-> IF i = n + 1 THEN -SCALE ELSE SCALE]

Samples(n) ==
    SeqsUpTo(SampleVals, MaxLen)
        \cup {ZeroSample, FortnightSample, YearSample(n), LongSample(n)}

----------------------------------------------------------------------------
(* Construction *)

Init ==
    /\ year \in Years
    /\ dates = DateRange(year)
    /\ n_hours = DateRange(year).periods
    /\ pc = "idle"
    /\ profile_type = None
    /\ annual_volume_mwh = 0
    /\ response = "none"
    /\ real_curve = <<>>
    /\ fetches = 0
    /\ draws = <<>>
    /\ curve = <<>>
    /\ total_units = 0
    /\ result = NoSeries
    /\ days = 0
    /\ had_data = FALSE

----------------------------------------------------------------------------
(* generate_profile *)

\* entry without the archetype test: every call asks the retriever
GenerateProfileAlwaysFetch(pt, vol) ==
    /\ pc = "idle"
    /\ profile_type' = pt
    /\ annual_volume_mwh' = vol
    /\ pc' = "fetch"
    /\ UNCHANGED <<instance, had_data, days, response, real_curve, fetches, draws, curve, total_units,
                   result>>

\* entry that skips the retriever once an earlier call obtained a sample (a cache)
GenerateProfileCached(pt, vol) ==
    /\ pc = "idle"
    /\ profile_type' = pt
    /\ annual_volume_mwh' = vol
    /\ pc' = IF pt = "INDUSTRY_24_7" /\ ~had_data THEN "fetch" ELSE "synthetic"
    /\ UNCHANGED <<instance, had_data, days, response, real_curve, fetches, draws, curve,
                   total_units, result>>

\* entry: the archetype test of line 56 decides whether the retriever is called
GenerateProfile(pt, vol) ==
    /\ pc = "idle"
    /\ profile_type' = pt
    /\ annual_volume_mwh' = vol
    /\ pc' = IF pt = "INDUSTRY_24_7" THEN "fetch" ELSE "synthetic"
    /\ UNCHANGED <<instance, had_data, days, response, real_curve, fetches, draws, curve, total_units,
                   result>>

\* self.elia.fetch_real_load_curve(days=14) returns a series, possibly empty
FetchReturns(sample) ==
    /\ pc = "fetch"
    /\ response' = IF sample # <<>> THEN "data" ELSE "empty"
    /\ real_curve' = sample
    /\ fetches' = fetches + 1
    /\ days' = FetchDays
    /\ pc' = IF sample # <<>> THEN "real" ELSE "synthetic"
    /\ UNCHANGED <<instance, had_data, profile_type, annual_volume_mwh, draws, curve,
                   total_units, result>>

\* the fault caught inside generate_profile and answered by the synthetic fallback
FetchFaultsCaught ==
    /\ pc = "fetch"
    /\ response' = "fault"
    /\ fetches' = fetches + 1
    /\ days' = FetchDays
    /\ pc' = "synthetic"
    /\ UNCHANGED <<instance, had_data, profile_type, annual_volume_mwh, real_curve, draws,
                   curve, total_units, result>>

\* self.elia.fetch_real_load_curve(days=14) raises: nothing catches it
FetchFaults ==
    /\ pc = "fetch"
    /\ response' = "fault"
    /\ fetches' = fetches + 1
    /\ days' = FetchDays
    /\ pc' = "raised"
    /\ UNCHANGED <<instance, had_data, profile_type, annual_volume_mwh, real_curve, draws,
                   curve, total_units, result>>

\* np.tile(pattern, repeats)
Tile(pattern, repeats) ==
    [i \in 1..(Len(pattern) * repeats) |-> pattern[((i - 1) % Len(pattern)) + 1]]

\* the slice [: self.n_hours] left out
TruncateNone(a, n) == a

\* a[:n]
Truncate(a, n) == SubSeq(a, 1, Min(n, Len(a)))

\* the pattern repeated floor(n / len) times, without the + 1
FullPatternFloor(pattern, n) == Truncate(Tile(pattern, n \div Len(pattern)), n)

\* lines 67-68
FullPattern(pattern, n) == Truncate(Tile(pattern, (n \div Len(pattern)) + 1), n)

\* np.zeros(n)
Zeros(n) == [i \in 1..n |-> 0]

\* the division by the total without the factor annual_volume_mwh
NormalizeRealNoVolume(full_pattern, total, vol, n) ==
    IF total = 0
    THEN [values |-> [i \in 1..n |-> 0], den |-> 1]
    ELSE [values |-> full_pattern, den |-> total]

\* lines 71-77: normalization of the real-data path
NormalizeReal(full_pattern, total, vol, n) ==
    IF total = 0
    THEN [values |-> Zeros(n), den |-> 1]
    ELSE [values |-> [i \in 1..Len(full_pattern) |-> full_pattern[i] * vol],
          den |-> total]

\* pd.Series(values, index=..., name=...)
Series(normalized, index, name) ==
    [values |-> normalized.values, den |-> normalized.den,
     index |-> index, name |-> name]

\* the real-data path without its return statement: control reaches line 89
RealPathFallsThrough ==
    /\ pc = "real"
    /\ LET full_pattern == FullPattern(real_curve, n_hours)
           total == Sum(full_pattern)
       IN /\ curve' = full_pattern
          /\ total_units' = total
          /\ result' = Series(NormalizeReal(full_pattern, total, annual_volume_mwh, n_hours),
                              dates, "Real Load (MWh)")
    /\ pc' = "synthetic"
    /\ UNCHANGED <<instance, had_data, days, profile_type, annual_volume_mwh, response, real_curve, fetches,
                   draws>>

\* lines 62-84: the real-data path, up to its return
RealPath ==
    /\ pc = "real"
    /\ LET full_pattern == FullPattern(real_curve, n_hours)
           total == Sum(full_pattern)
       IN /\ curve' = full_pattern
          /\ total_units' = total
          /\ result' = Series(NormalizeReal(full_pattern, total, annual_volume_mwh, n_hours),
                              dates, "Real Load (MWh)")
    /\ pc' = "returned"
    /\ UNCHANGED <<instance, had_data, days, profile_type, annual_volume_mwh, response, real_curve, fetches,
                   draws>>

----------------------------------------------------------------------------
(* Synthetic shape generator and its normalization, lines 89-186 *)

\* SETTINGS.WEEKEND_DAYS (src/core/settings.py): Saturday and Sunday
WEEKEND_DAYS == {5, 6}

\* np.random.normal(loc, scale): loc + scale * z for a standard score z
Normal(loc, scale, z) == loc + scale * z

\* the k-th draw of the call
DrawAt(zs, k) == zs[((k - 1) % Len(zs)) + 1]

\* dates.dayofweek.isin(SETTINGS.WEEKEND_DAYS), line 108
IsWeekend(d, i) == DayOfWeek(d, i) \in WEEKEND_DAYS

\* the weekend reduction left out
WeekendFactorNone(x) == x

\* base_curve[is_weekend] *= 0.85, line 113
WeekendFactor(x) == (x * 85) \div 100

\* lines 103-113
IndustryShape(d, n, zs) ==
    [i \in 1..n |->
        LET x == Normal(SCALE, SCALE \div 20, DrawAt(zs, i))
        IN IF IsWeekend(d, i) THEN WeekendFactor(x) ELSE x]

\* the working window with its last hour excluded (hour < 18)
IsWorkingStrict(d, i) == Hour(d, i) >= 8 /\ Hour(d, i) < 18 /\ DayOfWeek(d, i) < 5

\* lines 126-131
IsWorking(d, i) == Hour(d, i) >= 8 /\ Hour(d, i) <= 18 /\ DayOfWeek(d, i) < 5

\* number of True entries of is_working before day number dn (0-based) began
WorkingBeforeDay(d, dn) ==
    11 * (5 * (dn \div 7)
          + Cardinality({k \in 0..((dn % 7) - 1) : (Jan1DayOfWeek(d.start) + k) % 7 < 5}))

\* position of hour i among the True entries of is_working (boolean-mask assignment)
WorkingRank(d, i) == WorkingBeforeDay(d, (i - 1) \div 24) + (Hour(d, i) - 8) + 1

\* lines 134-137
OfficeShape(d, n, zs) ==
    [i \in 1..n |->
        IF IsWorking(d, i)
        THEN Normal(SCALE, SCALE \div 10, DrawAt(zs, WorkingRank(d, i)))
        ELSE SCALE \div 10]

\* np.sin(k * np.pi / 14) for k in 0..14, in fixed point
Sin14(k) == <<0, 89, 174, 249, 313, 360, 390, 400, 390, 360, 313, 249, 174, 89, 0>>[k + 1]

\* line 149
IsDaylight(d, i) == Hour(d, i) >= 6 /\ Hour(d, i) <= 20

\* night hours left at a standby baseline instead of zero
SolarShapeBaseline(d, n) ==
    [i \in 1..n |-> Max(IF Hour(d, i) >= 6 /\ Hour(d, i) <= 20
                        THEN Sin14(Hour(d, i) - 6) ELSE SCALE \div 10, 0)]

\* lines 156-161
SolarShape(d, n) ==
    [i \in 1..n |-> Max(IF IsDaylight(d, i) THEN Sin14(Hour(d, i) - 6) ELSE 0, 0)]

\* lines 166-175: normalization of the synthetic path
NormalizeSynthetic(base_curve, total, vol) ==
    IF total > 0
    THEN [values |-> [i \in 1..Len(base_curve) |-> base_curve[i] * vol],
          den |-> total]
    ELSE [values |-> base_curve, den |-> SCALE]

\* lines 166-186: total, normalization and return of the synthetic path
FinishSynthetic(base_curve) ==
    LET total == Sum(base_curve)
    IN /\ curve' = base_curve
       /\ total_units' = total
       /\ result' = Series(NormalizeSynthetic(base_curve, total, annual_volume_mwh),
                           dates, "Synthetic Load")
       /\ pc' = "returned"

\* line 98 branch
SyntheticIndustry(zs) ==
    /\ pc = "synthetic"
    /\ profile_type = "INDUSTRY_24_7"
    /\ draws' = zs
    /\ FinishSynthetic(IndustryShape(dates, n_hours, zs))
    /\ UNCHANGED <<instance, had_data, days, profile_type, annual_volume_mwh, response, real_curve, fetches>>

\* line 121 branch
SyntheticOffice(zs) ==
    /\ pc = "synthetic"
    /\ profile_type = "OFFICE_BUILDING"
    /\ draws' = zs
    /\ FinishSynthetic(OfficeShape(dates, n_hours, zs))
    /\ UNCHANGED <<instance, had_data, days, profile_type, annual_volume_mwh, response, real_curve, fetches>>

\* the solar branch keeping only the daylight rows of the calendar in self.dates
SyntheticSolarShrinksCalendar ==
    /\ pc = "synthetic"
    /\ profile_type = "SOLAR_PPA"
    /\ FinishSynthetic(SolarShape(dates, n_hours))
    /\ dates' = [dates EXCEPT !.periods = 15 * DaysInYear(year)]
    /\ UNCHANGED <<year, n_hours, had_data, days, profile_type, annual_volume_mwh, response,
                   real_curve, fetches, draws>>

\* line 145 branch
SyntheticSolar ==
    /\ pc = "synthetic"
    /\ profile_type = "SOLAR_PPA"
    /\ FinishSynthetic(SolarShape(dates, n_hours))
    /\ UNCHANGED <<instance, had_data, days, profile_type, annual_volume_mwh, response, real_curve, fetches,
                   draws>>

\* no branch taken: base_curve stays np.zeros(n_hours), line 92
SyntheticFallthrough ==
    /\ pc = "synthetic"
    /\ profile_type \notin {"INDUSTRY_24_7", "OFFICE_BUILDING", "SOLAR_PPA"}
    /\ FinishSynthetic(Zeros(n_hours))
    /\ UNCHANGED <<instance, had_data, days, profile_type, annual_volume_mwh, response, real_curve, fetches,
                   draws>>

\* the caller takes the series or the exception; the call's locals are gone
Release ==
    /\ pc \in {"returned", "raised"}
    /\ pc' = "idle"
    /\ profile_type' = None
    /\ annual_volume_mwh' = 0
    /\ response' = "none"
    /\ real_curve' = <<>>
    /\ fetches' = 0
    /\ draws' = <<>>
    /\ curve' = <<>>
    /\ total_units' = 0
    /\ result' = NoSeries
    /\ days' = 0
    /\ had_data' = (had_data \/ response = "data")
    /\ UNCHANGED instance

Next ==
    \/ \E pt \in Archetypes, vol \in Volumes : GenerateProfile(pt, vol)
    \/ \E sample \in Samples(n_hours) \cup {<<>>} : FetchReturns(sample)
    \/ FetchFaults
    \/ RealPath
    \/ \E zs \in [1..DrawPeriod -> Zs] : SyntheticIndustry(zs)
    \/ \E zs \in [1..DrawPeriod -> Zs] : SyntheticOffice(zs)
    \/ SyntheticSolar
    \/ SyntheticFallthrough
    \/ Release

Spec == Init /\ [][Next]_vars

----------------------------------------------------------------------------
(* Properties *)

Returned == pc = "returned"
Supported == {"INDUSTRY_24_7", "OFFICE_BUILDING", "SOLAR_PPA"}
Sign(x) == IF x > 0 THEN 1 ELSE IF x < 0 THEN -1 ELSE 0

\* C1: for every year, supported archetype and retriever response, the
\* returned series has exactly 24 x days-in-year points (8760, or 8784 in a
\* leap year) and is indexed by the generator's calendar.
C1_LengthIsCalendar ==
    (Returned /\ profile_type \in Supported) =>
        /\ Len(result.values) = n_hours
        /\ n_hours = (IF year % 4 = 0 /\ (year % 100 # 0 \/ year % 400 = 0)
                      THEN 8784 ELSE 8760)
        /\ result.index = dates
        /\ dates.periods = n_hours

C1_Witness ==
    /\ Returned
    /\ year = 2024
    /\ result.name = "Real Load (MWh)"
    /\ Len(real_curve) > n_hours
    /\ Len(result.values) = 8784

\* C2: whenever the pre-normalization total is strictly positive, the sum of
\* the returned series equals annual_volume_mwh, on both paths.
C2_EnergyConserved ==
    (Returned /\ total_units > 0) =>
        /\ total_units = Sum(curve)
        /\ Sum(result.values) = annual_volume_mwh * result.den

C2_Witness ==
    /\ Returned
    /\ result.name = "Real Load (MWh)"
    /\ total_units > 0
    /\ annual_volume_mwh = 12
    /\ Sum(result.values) = 12 * result.den

\* C3: INDUSTRY_24_7 with a non-empty sample returns the series labeled
\* "Real Load (MWh)" whose values are the tiled, truncated, rescaled sample;
\* no Gaussian draw is made and nothing synthetic enters the output.
C3_RealPathOnly ==
    (Returned /\ profile_type = "INDUSTRY_24_7" /\ response = "data") =>
        /\ result.name = "Real Load (MWh)"
        /\ draws = <<>>
        /\ Len(result.values) = n_hours
        /\ \A i \in 1..n_hours :
              LET tiled == real_curve[((i - 1) % Len(real_curve)) + 1]
              IN /\ curve[i] = tiled
                 /\ total_units # 0 =>
                       /\ result.values[i] = tiled * annual_volume_mwh
                       /\ result.den = total_units
                 /\ total_units = 0 => result.values[i] = 0

C3_Witness ==
    /\ Returned
    /\ profile_type = "INDUSTRY_24_7"
    /\ response = "data"
    /\ Len(real_curve) = 336
    /\ result.name = "Real Load (MWh)"
    /\ draws = <<>>

\* C4: INDUSTRY_24_7 with an empty sample raises nothing, shapes the
\* synthetic industrial curve (per-hour draw, weekend hours times 0.85),
\* normalizes it and returns it labeled "Synthetic Load", with the volume
\* conserved.
C4_EmptyFallsBack ==
    (profile_type = "INDUSTRY_24_7" /\ response = "empty") =>
        /\ pc \in {"synthetic", "returned"}
        /\ Returned =>
              /\ result.name = "Synthetic Load"
              /\ Len(draws) > 0
              /\ Len(result.values) = n_hours
              /\ \A i \in 1..n_hours :
                    LET x == SCALE + (SCALE \div 20) * draws[((i - 1) % Len(draws)) + 1]
                        weekday == (Jan1DayOfWeek(year) + (i - 1) \div 24) % 7
                    IN curve[i] = IF weekday \in {5, 6} THEN (x * 85) \div 100 ELSE x
              /\ total_units > 0 => Sum(result.values) = annual_volume_mwh * result.den

C4_Witness ==
    /\ Returned
    /\ profile_type = "INDUSTRY_24_7"
    /\ response = "empty"
    /\ result.name = "Synthetic Load"
    /\ total_units > 0
    /\ annual_volume_mwh = 12
    /\ \E i \in 1..n_hours : curve[i] = 357

\* C5: for SOLAR_PPA and a volume >= 0 every hour of the returned series is
\* non-negative and every hour with hour-of-day < 6 or > 20 is exactly 0.
C5_SolarNonNegative ==
    (Returned /\ profile_type = "SOLAR_PPA" /\ annual_volume_mwh >= 0) =>
        \A i \in 1..Len(result.values) :
            /\ Sign(result.values[i]) * Sign(result.den) >= 0
            /\ ((i - 1) % 24 < 6 \/ (i - 1) % 24 > 20) => result.values[i] = 0

C5_Witness ==
    /\ Returned
    /\ profile_type = "SOLAR_PPA"
    /\ annual_volume_mwh = 12
    /\ result.values[13] > 0
    /\ result.values[1] = 0

\* C6: for OFFICE_BUILDING every non-working hour (hour outside [8,18] or
\* weekday index >= 5) has the pre-normalization weight 0.1 and one and the
\* same returned value, whatever the draws; the hours carrying a draw are
\* exactly those with hour in [8,18] and weekday index < 5.
C6_OfficeBaseline ==
    (Returned /\ profile_type = "OFFICE_BUILDING") =>
        \A i \in 1..n_hours :
            LET hour == (i - 1) % 24
                weekday == (Jan1DayOfWeek(year) + (i - 1) \div 24) % 7
                working == hour >= 8 /\ hour <= 18 /\ weekday < 5
            IN /\ ~working => /\ curve[i] * 10 = SCALE
                              /\ result.values[i] = result.values[1]
               /\ working => curve[i] \in {SCALE + (SCALE \div 10) * z : z \in Zs}

C6_Witness ==
    /\ Returned
    /\ profile_type = "OFFICE_BUILDING"
    /\ total_units > 0
    /\ annual_volume_mwh = 12
    /\ \E i \in 1..48 : curve[i] = -440
    /\ \E i \in 1..48 : curve[i] = 440

\* C7: whenever the pre-normalization total is 0, on either path, the output
\* is the input curve unchanged, also for a tiled sample that cancels to 0.
C7_ZeroTotalUnchanged ==
    (Returned /\ total_units = 0) =>
        /\ Len(result.values) = Len(curve)
        /\ \A i \in 1..Len(curve) : result.values[i] * SCALE = curve[i] * result.den

\* C8: an unrecognized profile_type raises nothing and never reaches the
\* retriever; the call returns a calendar-length series of zeros labeled
\* "Synthetic Load", so a non-zero requested volume is not conserved.
C8_UnknownArchetypeZeros ==
    (profile_type \notin Supported \cup {None}) =>
        /\ pc \in {"synthetic", "returned"}
        /\ fetches = 0
        /\ response = "none"
        /\ Returned =>
              /\ result.name = "Synthetic Load"
              /\ Len(result.values) = n_hours
              /\ \A i \in 1..n_hours : result.values[i] = 0
              /\ annual_volume_mwh # 0 =>
                    Sum(result.values) # annual_volume_mwh * result.den

C8_Witness ==
    /\ Returned
    /\ profile_type = "RETAIL_SHOP"
    /\ annual_volume_mwh = 12
    /\ result.name = "Synthetic Load"
    /\ result.values[1] = 0

\* C9: a fault of fetch_real_load_curve ends the call with the fault
\* propagated: one fetch, no series, no draw, no synthetic fallback, the
\* calendar as constructed; the only thing that follows is the caller taking
\* over, after which the instance is as fresh.
C9_FaultState ==
    /\ pc = "raised" =>
          /\ response = "fault"
          /\ fetches = 1
          /\ result = NoSeries
          /\ draws = <<>>
          /\ curve = <<>>
          /\ dates = DateRange(year)
          /\ n_hours = 24 * DaysInYear(year)
    /\ (profile_type = "INDUSTRY_24_7" /\ pc \in {"synthetic", "real", "returned"}) =>
          response \in {"empty", "data"}

C9_FaultPropagates ==
    /\ []C9_FaultState
    /\ [][(pc' = "raised" => UNCHANGED instance)
          /\ (pc = "raised" =>
                 /\ pc' = "idle"
                 /\ UNCHANGED instance
                 /\ fetches' = 0
                 /\ response' = "none"
                 /\ result' = NoSeries)]_vars

C9_Witness ==
    /\ pc = "raised"
    /\ response = "fault"
    /\ profile_type = "INDUSTRY_24_7"

\* C10: both paths apply one rule: the curve is rescaled by
\* annual_volume_mwh / total if and only if total > 0, and is otherwise
\* returned unscaled, never divided by its total.
C10_SameRuleBothPaths ==
    Returned =>
        /\ Len(result.values) = Len(curve)
        /\ total_units > 0 =>
              /\ result.den = total_units
              /\ \A i \in 1..Len(curve) : result.values[i] = curve[i] * annual_volume_mwh
        /\ total_units <= 0 =>
              \A i \in 1..Len(curve) : result.values[i] * SCALE = curve[i] * result.den

\* C11: for every non-empty sample of length L the tiled pattern has exactly
\* n_hours elements, element i (0-based) being pattern[i mod L]: the result
\* of repeating the pattern ceil(n_hours / L) times and truncating, also
\* when L divides n_hours and when L > n_hours.
C11_Tiling ==
    (Returned /\ response = "data") =>
        LET L == Len(real_curve)
            ceil == (n_hours + L - 1) \div L
            repeated == [i \in 1..(L * ceil) |-> real_curve[((i - 1) % L) + 1]]
        IN /\ L >= 1
           /\ L * ceil >= n_hours
           /\ Len(curve) = n_hours
           /\ \A i \in 1..n_hours : curve[i] = repeated[i]

C11_Witness ==
    /\ Returned
    /\ response = "data"
    /\ Len(real_curve) = n_hours
    /\ Len(curve) = n_hours
    /\ curve[n_hours] = real_curve[n_hours]

\* C12: in any sequence of calls the retriever is called exactly once, with
\* days = 14, in each INDUSTRY_24_7 call and never in another call; nothing
\* is cached: the path of a call follows the response of that call, so an
\* empty response after an earlier non-empty one gives a synthetic result.
C12_OneFetchNoCache ==
    /\ fetches <= 1
    /\ profile_type # "INDUSTRY_24_7" => (fetches = 0 /\ days = 0 /\ response = "none")
    /\ (profile_type = "INDUSTRY_24_7" /\ pc \in {"real", "synthetic", "returned", "raised"}) =>
          (fetches = 1 /\ days = 14)
    /\ (Returned /\ profile_type = "INDUSTRY_24_7") =>
          /\ response = "data" => result.name = "Real Load (MWh)"
          /\ response = "empty" =>
                /\ result.name = "Synthetic Load"
                /\ real_curve = <<>>
                /\ Len(draws) > 0
          /\ response \in {"data", "empty"}

C12_Witness ==
    /\ Returned
    /\ had_data
    /\ profile_type = "INDUSTRY_24_7"
    /\ response = "empty"
    /\ fetches = 1
    /\ days = 14
    /\ result.name = "Synthetic Load"

\* C13: year, dates and n_hours are built at construction and no step of any
\* call changes them, whatever the path (a propagated fault included); they
\* are all that survives a call, and every returned series is indexed by
\* the same calendar.
C13_CalendarState ==
    /\ dates = [start |-> year, periods |-> n_hours]
    /\ n_hours = 24 * (IF year % 4 = 0 /\ (year % 100 # 0 \/ year % 400 = 0)
                       THEN 366 ELSE 365)
    /\ Returned => result.index = dates
    /\ pc = "idle" =>
          /\ profile_type = None
          /\ response = "none"
          /\ real_curve = <<>>
          /\ fetches = 0
          /\ draws = <<>>
          /\ curve = <<>>
          /\ result = NoSeries

C13_CalendarUnchanged ==
    /\ []C13_CalendarState
    /\ [][year' = year /\ dates' = dates /\ n_hours' = n_hours]_vars

C13_Witness ==
    /\ Returned
    /\ had_data
    /\ profile_type = "SOLAR_PPA"
    /\ year = 2026
    /\ n_hours = 8760
    /\ result.index = dates

====
